---- MODULE Spec2Model ----
(***************************************************************************)
(* A model of the tube router: pattern compilation, the two-tier route     *)
(* table, the request cache, the document cache and the static helpers.    *)
(* Strings are sequences of one-character strings.                         *)
(***************************************************************************)
EXTENDS Integers, Sequences, FiniteSets, TLC

\* ------------------------------------------------------------------------
\* strings
\* ------------------------------------------------------------------------

SetMin(S) == CHOOSE x \in S : \A y \in S : x <= y

SetMax(S) == CHOOSE x \in S : \A y \in S : x >= y

HasSuffix(s, suf) ==
  Len(s) >= Len(suf) /\ SubSeq(s, Len(s) - Len(suf) + 1, Len(s)) = suf

HasPrefix(s, pre) ==
  Len(s) >= Len(pre) /\ SubSeq(s, 1, Len(pre)) = pre

TrimPrefix(s, pre) ==
  IF HasPrefix(s, pre) THEN SubSeq(s, Len(pre) + 1, Len(s)) ELSE s

\* strings.Index, 1-based; 0 when sub does not occur in s
Index(s, sub) ==
  LET at == {i \in 1..(Len(s) - Len(sub) + 1) : SubSeq(s, i, i + Len(sub) - 1) = sub}
  IN  IF at = {} THEN 0 ELSE SetMin(at)

\* strings.Replace(s, old, new, 1)
Replace1(s, old, new) ==
  LET i == Index(s, old)
  IN  IF i = 0 THEN s
      ELSE SubSeq(s, 1, i - 1) \o new \o SubSeq(s, i + Len(old), Len(s))

\* ------------------------------------------------------------------------
\* package path
\* ------------------------------------------------------------------------

\* the elements of s between slashes, empty ones included
RECURSIVE SplitSlash(_)
SplitSlash(s) ==
  LET i == Index(s, <<"/">>)
  IN  IF i = 0 THEN <<s>>
      ELSE <<SubSeq(s, 1, i - 1)>> \o SplitSlash(SubSeq(s, i + 1, Len(s)))

RECURSIVE JoinSlash(_)
JoinSlash(segs) ==
  IF segs = <<>> THEN <<>>
  ELSE IF Len(segs) = 1 THEN segs[1]
  ELSE segs[1] \o <<"/">> \o JoinSlash(Tail(segs))

\* the element stack path.Clean builds: "." and empty elements dropped,
\* ".." pops an element, is dropped at the root, is kept otherwise
RECURSIVE CleanStack(_, _, _)
CleanStack(segs, stack, rooted) ==
  IF segs = <<>> THEN stack
  ELSE LET e == Head(segs)
           rest == Tail(segs)
       IN  IF e = <<>> \/ e = <<".">> THEN CleanStack(rest, stack, rooted)
           ELSE IF e = <<".", ".">>
           THEN IF stack # <<>> /\ stack[Len(stack)] # <<".", ".">>
                THEN CleanStack(rest, SubSeq(stack, 1, Len(stack) - 1), rooted)
                ELSE IF rooted THEN CleanStack(rest, stack, rooted)
                ELSE CleanStack(rest, Append(stack, e), rooted)
           ELSE CleanStack(rest, Append(stack, e), rooted)

\* path.Clean
Clean(s) ==
  IF s = <<>> THEN <<".">>
  ELSE LET rooted == s[1] = "/"
           body == JoinSlash(CleanStack(SplitSlash(s), <<>>, rooted))
           out == (IF rooted THEN <<"/">> ELSE <<>>) \o body
       IN  IF out = <<>> THEN <<".">> ELSE out

\* path.Join of two elements
Join(a, b) ==
  IF a = <<>> /\ b = <<>> THEN <<>>
  ELSE IF a = <<>> THEN Clean(b)
  ELSE IF b = <<>> THEN Clean(a)
  ELSE Clean(a \o <<"/">> \o b)

LastSlash(s) ==
  LET at == {i \in 1..Len(s) : s[i] = "/"}
  IN  IF at = {} THEN 0 ELSE SetMax(at)

\* path.Ext: the suffix from the final dot of the final element
Ext(s) ==
  LET dots == {i \in (LastSlash(s) + 1)..Len(s) : s[i] = "."}
  IN  IF dots = {} THEN <<>> ELSE SubSeq(s, SetMax(dots), Len(s))

\* strips trailing slashes (helper of path.Base)
RECURSIVE StripTrailing(_)
StripTrailing(s) ==
  IF Len(s) > 0 /\ s[Len(s)] = "/" THEN StripTrailing(SubSeq(s, 1, Len(s) - 1)) ELSE s

\* path.Base
Base(s) ==
  IF s = <<>> THEN <<".">>
  ELSE LET t == StripTrailing(s)
       IN  IF t = <<>> THEN <<"/">> ELSE SubSeq(t, LastSlash(t) + 1, Len(t))

\* path.Dir
PathDir(s) == Clean(SubSeq(s, 1, LastSlash(s)))

\* ------------------------------------------------------------------------
\* parsePattern
\* ------------------------------------------------------------------------

\* "(.+)" and "([^/]+)", the groups parsePattern substitutes
WildGroup == <<"(", ".", "+", ")">>

SingleGroup == <<"(", "[", "^", "/", "]", "+", ")">>

\* the submatches of `@+(.+?)(?:/|\)|$)` in str from position from on:
\* the run of '@' is taken whole when a character follows it, the name
\* is that character and the shortest continuation that ends before '/',
\* ')' or the end of the string, and the terminator is consumed
RECURSIVE FindNames(_, _)
FindNames(str, from) ==
  LET ats == {i \in from..Len(str) : str[i] = "@"}
  IN  IF ats = {} THEN <<>>
      ELSE LET j == SetMin(ats)
               nonAt == {i \in j..Len(str) : str[i] # "@"}
               k == IF nonAt # {} THEN SetMin(nonAt) ELSE Len(str)
               ends == {e \in (k + 1)..Len(str) : str[e] \in {"/", ")"}}
               e == IF ends = {} THEN Len(str) + 1 ELSE SetMin(ends)
           IN  IF k = j THEN <<>>
               ELSE <<SubSeq(str, k, e - 1)>> \o FindNames(str, e + 1)

\* the loop body of parsePattern over the names found
RECURSIVE SubstNames(_, _)
SubstNames(str, names) ==
  IF names = <<>> THEN str
  ELSE LET name == Head(names)
           s1 == Replace1(str, <<"@", "@">> \o name, WildGroup)
           s2 == Replace1(s1, <<"@">> \o name, SingleGroup)
       IN  SubstNames(s2, Tail(names))

TrimSlash(str) ==
  IF str # <<"/">> /\ HasSuffix(str, <<"/">>)
  THEN SubSeq(str, 1, Len(str) - 1) ELSE str

\* parsePattern: the regular expression source and the parameter names
parsePattern(str0) ==
  LET str == TrimSlash(str0)
      names == IF Index(str, <<"@">>) # 0 THEN FindNames(str, 1) ELSE <<>>
  IN  [rx |-> <<"^">> \o SubstNames(str, names) \o <<"$">>, params |-> names]

\* Router.Dir
Dir(str) ==
  TrimSlash(str) \o <<"(", "?", ":", "/", "?", "@", "@", "p", "a", "t", "h", ")", "?">>

\* ------------------------------------------------------------------------
\* regexp: the syntax that parsePattern, Dir and ClearCache produce
\* ------------------------------------------------------------------------

UpperCase ==
  {"A", "B", "C", "D", "E", "F", "G", "H", "I", "J", "K", "L", "M",
   "N", "O", "P", "Q", "R", "S", "T", "U", "V", "W", "X", "Y", "Z"}

UpperPlus == <<"[", "A", "-", "Z", "]", "+">>

At(s, i, sub) == i + Len(sub) - 1 <= Len(s) /\ SubSeq(s, i, i + Len(sub) - 1) = sub

\* the parser of package regexp: the expression as a sequence of nodes
RECURSIVE Compile(_, _)
Compile(rx, i) ==
  IF i > Len(rx) THEN <<>>
  ELSE IF At(rx, i, WildGroup) THEN <<[t |-> "wild", c |-> ""]>> \o Compile(rx, i + 4)
  ELSE IF At(rx, i, SingleGroup) THEN <<[t |-> "single", c |-> ""]>> \o Compile(rx, i + 7)
  ELSE IF At(rx, i, UpperPlus) THEN <<[t |-> "upper", c |-> ""]>> \o Compile(rx, i + 6)
  ELSE IF At(rx, i, <<"(", "?", ":">>) THEN <<[t |-> "open", c |-> ""]>> \o Compile(rx, i + 3)
  ELSE IF At(rx, i, <<")", "?">>) THEN <<[t |-> "close", c |-> ""]>> \o Compile(rx, i + 2)
  ELSE IF rx[i] = "^" THEN <<[t |-> "bol", c |-> ""]>> \o Compile(rx, i + 1)
  ELSE IF rx[i] = "$" THEN <<[t |-> "eol", c |-> ""]>> \o Compile(rx, i + 1)
  ELSE IF i < Len(rx) /\ rx[i + 1] = "?"
       THEN <<[t |-> "opt", c |-> rx[i]]>> \o Compile(rx, i + 2)
  ELSE IF rx[i] = "." THEN <<[t |-> "any", c |-> ""]>> \o Compile(rx, i + 1)
  ELSE <<[t |-> "lit", c |-> rx[i]]>> \o Compile(rx, i + 1)

NoMatch == [ok |-> FALSE, caps |-> <<>>]

\* the first run of characters of s from si on that are all in / all outside a class
RunLen(s, si, class, inside) ==
  LET stop == {i \in si..Len(s) : (s[i] \in class) # inside}
  IN  (IF stop = {} THEN Len(s) + 1 ELSE SetMin(stop)) - si

\* the node after the group opened at ti, and the capture groups inside it
CloseOf(toks, ti) == SetMin({j \in (ti + 1)..Len(toks) : toks[j].t = "close"})

GroupsIn(toks, from, to) ==
  Cardinality({j \in from..to : toks[j].t \in {"wild", "single"}})

\* leftmost-first matching with submatches, by backtracking in priority
\* order: a repetition tries its longest run first, an optional item is
\* tried before it is skipped, a group that took no part captures ""
RECURSIVE Exec(_, _, _, _)
RECURSIVE Repeat(_, _, _, _, _, _)
Repeat(toks, s, ti, si, n, capture) ==
  IF n < 1 THEN NoMatch
  ELSE LET r == Exec(toks, s, ti + 1, si + n)
       IN  IF r.ok
           THEN [ok |-> TRUE,
                 caps |-> (IF capture THEN <<SubSeq(s, si, si + n - 1)>> ELSE <<>>) \o r.caps]
           ELSE Repeat(toks, s, ti, si, n - 1, capture)

Exec(toks, s, ti, si) ==
  IF ti > Len(toks) THEN [ok |-> TRUE, caps |-> <<>>]
  ELSE LET tk == toks[ti]
       IN  CASE tk.t = "bol" -> IF si = 1 THEN Exec(toks, s, ti + 1, si) ELSE NoMatch
             [] tk.t = "eol" -> IF si = Len(s) + 1 THEN Exec(toks, s, ti + 1, si) ELSE NoMatch
             [] tk.t = "lit" ->
                  IF si <= Len(s) /\ s[si] = tk.c THEN Exec(toks, s, ti + 1, si + 1) ELSE NoMatch
             [] tk.t = "any" ->
                  IF si <= Len(s) THEN Exec(toks, s, ti + 1, si + 1) ELSE NoMatch
             [] tk.t = "opt" ->
                  LET r == IF si <= Len(s) /\ s[si] = tk.c
                           THEN Exec(toks, s, ti + 1, si + 1) ELSE NoMatch
                  IN  IF r.ok THEN r ELSE Exec(toks, s, ti + 1, si)
             [] tk.t = "upper" -> Repeat(toks, s, ti, si, RunLen(s, si, UpperCase, TRUE), FALSE)
             [] tk.t = "single" -> Repeat(toks, s, ti, si, RunLen(s, si, {"/"}, FALSE), TRUE)
             [] tk.t = "wild" -> Repeat(toks, s, ti, si, Len(s) - si + 1, TRUE)
             [] tk.t = "open" ->
                  LET r == Exec(toks, s, ti + 1, si)
                      cl == CloseOf(toks, ti)
                      skip == Exec(toks, s, cl + 1, si)
                  IN  IF r.ok THEN r
                      ELSE IF skip.ok
                      THEN [ok |-> TRUE,
                            caps |-> [g \in 1..GroupsIn(toks, ti, cl) |-> <<>>] \o skip.caps]
                      ELSE NoMatch
             [] tk.t = "close" -> Exec(toks, s, ti + 1, si)

\* regexp.MustCompile (the argument is evaluated once)
MustCompile(rx) == CHOOSE toks \in {Compile(r, 1) : r \in {rx}} : TRUE

\* Regexp.MatchString for an expression anchored with ^ (the arguments
\* are evaluated once)
MatchString(re, s) == \E toks \in {re} : \E t \in {s} : Exec(toks, t, 1, 1).ok

\* Regexp.FindAllStringSubmatch(s, -1)[0][1:], the submatches of the match
\* (the arguments are evaluated once)
Submatches(re, s) ==
  CHOOSE caps \in {Exec(toks, t, 1, 1).caps : toks \in {re}, t \in {s}} : TRUE

\* ------------------------------------------------------------------------
\* the state of the router and of its process
\* ------------------------------------------------------------------------

VARIABLES
  routes,        \* Router.routes
  lateRoutes,    \* Router.lateRoutes
  route404,      \* Router.route404
  route500,      \* Router.route500
  routeCache,    \* Router.routeCache
  htmlCache,     \* Router.htmlCache
  noCache,       \* Router.noCache
  htmlDisabled,  \* Router.htmlDisabled
  nextId,        \* the identity the next allocated route gets
  crashed,       \* a panic has left RemoveRoute, or a dispatch has overflowed the stack
  last,          \* what the last operation did (observation only)
  firstRes,      \* per key, the route its first dispatch resolved to (observation only)
  htmlOrigin,    \* per document-cache key, the request path that stored it (observation only)
  was404,        \* the identities Router.route404 has held (observation only)
  pending,       \* the keys EmptyCache removed that were not dispatched since (observation only)
  env,           \* the environment variables that are set to a non-empty value
  workers,       \* per goroutine, the call it is in and where it stands in it
  routeMutex,    \* Router.routeMutex
  htmlMutex,     \* Router.htmlMutex
  settled        \* the last ClearCache that returned, and the table it saw (observation only)

\* the goroutines and the locks
conc == <<workers, routeMutex, htmlMutex, settled>>

vars ==
  <<routes, lateRoutes, route404, route500, routeCache, htmlCache, noCache,
    htmlDisabled, nextId, crashed, last, firstRes, htmlOrigin, was404, pending, env,
    workers, routeMutex, htmlMutex, settled>>

\* ------------------------------------------------------------------------
\* the files the static helpers and the preprocessor read
\* ------------------------------------------------------------------------

DotHtml == <<".", "h", "t", "m", "l">>

IndexHtml == <<"i", "n", "d", "e", "x">> \o DotHtml

ParamPath == <<"p", "a", "t", "h">>

Text(v) == [t |-> "text", v |-> v, path |-> <<>>]

Include(p) == [t |-> "include", v |-> <<>>, path |-> p]

\* the head `<!-- if $NAME {` or `<!-- if !$NAME {` of a conditional
\* directive: v is NAME, path is the "!" or nothing
IfOpen(invchar, varname) == [t |-> "if", v |-> varname, path |-> invchar]

\* the tail `} -->` of a conditional directive
IfClose == [t |-> "fi", v |-> <<>>, path |-> <<>>]

Sp == Text(<<" ">>)

Nl == Text(<<"\n">>)

DEV == <<"D", "E", "V">>

File(content) == [kind |-> "file", content |-> content]

\* the file tree: two static roots s and t that both hold x.html, a page
\* that includes a missing file, a file that exists but cannot be read,
\* a subdirectory whose page includes its neighbour b.html while the
\* root holds another b.html, and two pages with a conditional directive
\* and its negation, on two lines (c.html) and on one line (d.html)
Files ==
  (<<"s">> :> [kind |-> "dir", content |-> <<>>])
  @@ (<<"t">> :> [kind |-> "dir", content |-> <<>>])
  @@ (<<"s", "/", "x">> \o DotHtml :> File(<<Text(<<"S">>), Include(<<"p">> \o DotHtml)>>))
  @@ (<<"s", "/", "p">> \o DotHtml :> File(<<Text(<<"P">>)>>))
  @@ (<<"t", "/", "x">> \o DotHtml :> File(<<Text(<<"T">>)>>))
  @@ (<<"s", "/", "y">> \o DotHtml :> File(<<Text(<<"Y">>), Include(<<"m">> \o DotHtml)>>))
  @@ (<<"s", "/", "z">> \o DotHtml :> [kind |-> "unreadable", content |-> <<>>])
  @@ (<<"s", "/", "s", "u", "b">> :> [kind |-> "dir", content |-> <<>>])
  @@ (<<"s", "/", "n">> \o DotHtml :> File(<<Text(<<"N">>), Include(<<"s", "u", "b", "/", "a">> \o DotHtml)>>))
  @@ (<<"s", "/", "s", "u", "b", "/", "a">> \o DotHtml :> File(<<Text(<<"A">>), Include(<<"b">> \o DotHtml)>>))
  @@ (<<"s", "/", "s", "u", "b", "/", "b">> \o DotHtml :> File(<<Text(<<"B">>)>>))
  @@ (<<"s", "/", "b">> \o DotHtml :> File(<<Text(<<"O">>)>>))
  @@ (<<"s", "/", "c">> \o DotHtml :>
        File(<<IfOpen(<<>>, DEV), Sp, Text(<<"X">>), Sp, IfClose, Nl,
               IfOpen(<<"!">>, DEV), Sp, Text(<<"Y">>), Sp, IfClose>>))
  @@ (<<"s", "/", "d">> \o DotHtml :>
        File(<<IfOpen(<<>>, DEV), Sp, Text(<<"X">>), Sp, IfClose,
               IfOpen(<<"!">>, DEV), Sp, Text(<<"Y">>), Sp, IfClose>>))

\* an error value: the sentinel errors errors.Is finds in its chain
\* and, as its text, the cause the operating system reported
NoErr == [failed |-> FALSE, is |-> {}, cause |-> "none"]

\* os.Stat succeeds
StatOk(fn) == fn \in DOMAIN Files

\* os.ReadFile
ReadFile(fn) ==
  IF fn \notin DOMAIN Files
  THEN [err |-> [failed |-> TRUE, is |-> {"ErrNotExist"}, cause |-> "ErrNotExist"], str |-> <<>>]
  ELSE IF Files[fn].kind = "unreadable"
  THEN [err |-> [failed |-> TRUE, is |-> {"ErrPermission"}, cause |-> "ErrPermission"], str |-> <<>>]
  ELSE IF Files[fn].kind = "dir"
  THEN [err |-> [failed |-> TRUE, is |-> {"EISDIR"}, cause |-> "EISDIR"], str |-> <<>>]
  ELSE [err |-> NoErr, str |-> Files[fn].content]

readHTMLFile(fn) == ReadFile(TrimPrefix(fn, <<"/">>))

\* fmt.Errorf with the verb %s: the text of err is kept, its chain is not
ErrorfS(err) == [failed |-> TRUE, is |-> {}, cause |-> err.cause]

\* errors.Is
ErrorsIs(err, target) == target \in err.is

\* the include tags the expression `<!--\s*include "(.+?\.html)"\s*-->` finds
IsIncludeTag(item) ==
  item.t = "include" /\ Len(item.path) > Len(DotHtml) /\ HasSuffix(item.path, DotHtml)

IncludeTags(str) == SelectSeq(str, IsIncludeTag)

\* Router.parseHTML, the include pass
RECURSIVE parseHTML(_, _)
RECURSIVE parseIncludes(_, _, _)
parseIncludes(str, tags, parentDir) ==
  IF tags = <<>> THEN [err |-> NoErr, str |-> str]
  ELSE LET tag == Head(tags)
           fn == Join(parentDir, tag.path)
           file == readHTMLFile(fn)
           nextDir == Join(parentDir, PathDir(tag.path))
           sub == parseHTML(file.str, nextDir)
       IN  IF file.err.failed THEN [err |-> ErrorfS(file.err), str |-> <<>>]
           ELSE IF sub.err.failed THEN [err |-> sub.err, str |-> <<>>]
           ELSE parseIncludes(Replace1(str, <<tag>>, sub.str), Tail(tags), parentDir)

\* white space, as \s matches it
IsSpace(item) == item = Sp \/ item = Nl

AllSpace(str, lo, hi) == \A k \in lo..hi : IsSpace(str[k])

\* the ways `{\s*(.+)\s*}\s*-->` continues the head at i: the submatch runs
\* from a to b without a line break, the tail is at j
Continuations(str, i) ==
  {c \in (i + 1..Len(str)) \X (i + 1..Len(str)) \X (i + 2..Len(str)) :
     /\ c[1] <= c[2] /\ c[2] < c[3]
     /\ str[c[3]].t = "fi"
     /\ AllSpace(str, i + 1, c[1] - 1)
     /\ \A k \in c[1]..c[2] : str[k] # Nl
     /\ AllSpace(str, c[2] + 1, c[3] - 1)}

\* the continuation the expression prefers: \s* takes all it can, then
\* (.+) takes all it can
Preferred(C) ==
  CHOOSE c \in C : \A e \in C : c[1] > e[1] \/ (c[1] = e[1] /\ c[2] >= e[2])

\* the matches of the conditional expression in str from position from
\* on, left to right without overlap
RECURSIVE FindConditionals(_, _)
FindConditionals(str, from) ==
  LET heads == {i \in from..Len(str) : str[i].t = "if" /\ Continuations(str, i) # {}}
  IN  IF heads = {} THEN <<>>
      ELSE LET i == SetMin(heads)
               c == Preferred(Continuations(str, i))
           IN  <<[tag |-> SubSeq(str, i, c[3]), invchar |-> str[i].path,
                  varname |-> str[i].v, text |-> SubSeq(str, c[1], c[2])]>>
               \o FindConditionals(str, c[3] + 1)

\* Router.parseHTML, the conditional pass
RECURSIVE parseConditionals(_, _)
parseConditionals(str, conditionals) ==
  IF conditionals = <<>> THEN str
  ELSE LET match == Head(conditionals)
           invert == match.invchar = <<"!">>
           hasEnv == match.varname \in env
           contents == IF (~invert /\ hasEnv) \/ (invert /\ ~hasEnv) THEN match.text ELSE <<>>
       IN  parseConditionals(Replace1(str, match.tag, contents), Tail(conditionals))

parseHTML(str, parentDir) ==
  LET Conditionals(inc) ==
        IF inc.err.failed THEN inc
        ELSE [err |-> NoErr, str |-> parseConditionals(inc.str, FindConditionals(inc.str, 1))]
  IN  Conditionals(parseIncludes(str, IncludeTags(str), parentDir))

\* ------------------------------------------------------------------------
\* the router
\* ------------------------------------------------------------------------

EmptyMap == [k \in {} |-> 0]

Put(f, k, v) == [j \in DOMAIN f \cup {k} |-> IF j = k THEN v ELSE f[j]]

Drop(f, ks) == [j \in DOMAIN f \ ks |-> f[j]]

\* a *route; id stands for the pointer
NewRoute(id, method, str, cb) ==
  [id |-> id, method |-> method, pattern |-> MustCompile(parsePattern(str).rx),
   params |-> parsePattern(str).params, callback |-> cb]

\* a route that has only a callback, as Set404, Set500 and NewRouter build
BareRoute(id, cb) ==
  [id |-> id, method |-> <<>>, pattern |-> <<>>, params |-> <<>>, callback |-> cb]

Callback(kind, arg) == [kind |-> kind, arg |-> arg]

CacheName(method, url) == method \o <<" ">> \o url

\* the request as it travels through one dispatch: the router's caches,
\* r.URL.Path, and what has been observed so far
Travel(method, url) ==
  [method |-> method, url0 |-> url, path |-> url,
   rc |-> routeCache, hc |-> htmlCache, ho |-> htmlOrigin,
   calls |-> <<>>, body |-> <<>>, nfKeys |-> {}, fail |-> "none",
   docHit |-> <<>>, parsed |-> FALSE, diverged |-> FALSE]

\* Router.writeCache
writeCache(x, cacheName, rt) == [x EXCEPT !.rc = Put(x.rc, cacheName, rt)]

\* Data.Write / io.WriteString(d.Writer, ...)
Write(x, what) == [x EXCEPT !.body = x.body \o what]

\* Router.callRoute, the parameter loop
Params(rt, url) ==
  LET caps == Submatches(rt.pattern, url)
  IN  [name \in {rt.params[i] : i \in 1..Len(caps)} |->
         caps[SetMax({i \in 1..Len(caps) : rt.params[i] = name})]]

RECURSIVE callRoute(_, _, _, _)

\* Data.NotFound
NotFound(x, fuel) ==
  LET url == Clean(x.path)
      cacheName == CacheName(x.method, url)
      x1 == writeCache(x, cacheName, route404)
  IN  callRoute([x1 EXCEPT !.nfKeys = @ \cup {cacheName}], route404, url, fuel - 1)

\* Data.Error
Error(x, err, fuel) == callRoute(x, route500, Clean(x.path), fuel - 1)

\* a slip in serveHTML: the text is cached whether or not it is static
serveHTMLAlways(x, static, text, dir, fuel) ==
  LET url == x.path
      Serve(res) ==
        LET xp == [x EXCEPT !.parsed = TRUE,
                            !.fail = IF res.err.failed /\ @ = "none" THEN res.err.cause ELSE @]
        IN  IF url \in DOMAIN x.hc /\ ~noCache
            THEN Write([x EXCEPT !.docHit = Append(@, url)], x.hc[url])
            ELSE IF res.err.failed
            THEN IF ErrorsIs(res.err, "ErrNotExist") THEN NotFound(xp, fuel)
                 ELSE Error(xp, res.err, fuel)
            ELSE LET xw == Write(xp, res.str)
                 IN  [xw EXCEPT !.hc = Put(@, url, res.str), !.ho = Put(@, url, x.url0)]
  IN  Serve(parseHTML(text, dir))

\* Router.serveHTML
serveHTML(x, static, text, dir, fuel) ==
  LET url == x.path
      Serve(res) ==
        LET xp == [x EXCEPT !.parsed = TRUE,
                            !.fail = IF res.err.failed /\ @ = "none" THEN res.err.cause ELSE @]
        IN  IF static /\ url \in DOMAIN x.hc /\ ~noCache
            THEN Write([x EXCEPT !.docHit = Append(@, url)], x.hc[url])
            ELSE IF res.err.failed
            THEN IF ErrorsIs(res.err, "ErrNotExist") THEN NotFound(xp, fuel)
                 ELSE Error(xp, res.err, fuel)
            ELSE LET xw == Write(xp, res.str)
                 IN  IF static
                     THEN [xw EXCEPT !.hc = Put(@, url, res.str), !.ho = Put(@, url, x.url0)]
                     ELSE xw
  IN  Serve(parseHTML(text, dir))

\* Router.serveHTMLStatic
serveHTMLStatic(x, dir, fn, fuel) ==
  LET file == readHTMLFile(Join(dir, fn))
  IN  IF file.err.failed
      THEN Error([x EXCEPT !.fail = IF @ = "none" THEN file.err.cause ELSE @],
                 ErrorfS(file.err), fuel)
      ELSE serveHTML(x, TRUE, file.str, dir, fuel)

\* the callback Router.StaticDir returns
StaticDir(x, dir, p, fuel) ==
  LET path1 == IF ParamPath \in DOMAIN p THEN <<"/">> \o p[ParamPath] ELSE x.path
      path2 == IF ~htmlDisabled /\ Ext(path1) = <<>>
                  /\ StatOk(Join(Join(dir, path1), IndexHtml))
               THEN Join(path1, IndexHtml) ELSE path1
      x2 == [x EXCEPT !.path = path2]
  IN  IF ~htmlDisabled /\ HasSuffix(path2, DotHtml)
      THEN serveHTMLStatic(x2, dir, path2, fuel)
      ELSE IF ~StatOk(Join(dir, path2)) THEN NotFound(x2, fuel)
      ELSE Write(x2, <<[t |-> "file", v |-> <<>>, path |-> Join(dir, path2)]>>)

\* the callback Router.StaticFile returns
StaticFile(x, fn, fuel) ==
  LET basefn == Base(fn)
      dir == PathDir(fn)
      x2 == [x EXCEPT !.path = basefn]
  IN  IF ~htmlDisabled /\ HasSuffix(fn, DotHtml)
      THEN serveHTMLStatic(x2, dir, basefn, fuel)
      ELSE IF ~StatOk(Clean(fn))
      THEN Error(x, [failed |-> TRUE, is |-> {}, cause |-> "none"], fuel)
      ELSE Write(x, <<[t |-> "file", v |-> <<>>, path |-> Clean(fn)]>>)

\* data.HTML when the callback has returned: a handler of kind "html" does
\* d.HTML += "H" + `<!-- include "arg" -->`, no other callback touches it
HTML(rt) ==
  IF rt.callback.kind = "html"
  THEN <<Text(<<"H">>), Include(rt.callback.arg)>> ELSE <<>>

\* rt.callback(data) for the callbacks of the model: a handler that
\* writes, a handler that only fills data.HTML, a handler that signals
\* NotFound, the two default fallbacks and the two static helpers
Invoke(x, rt, p, fuel) ==
  LET cb == rt.callback
  IN  CASE cb.kind = "write" -> Write(x, <<Text(cb.arg)>>)
        [] cb.kind = "html" -> x
        [] cb.kind = "notfound" -> NotFound(x, fuel)
        [] cb.kind = "default404" -> Write(x, <<Text(<<"404 file not found">>)>>)
        [] cb.kind = "default500" -> Write(x, <<Text(<<"500 internal server error">>)>>)
        [] cb.kind = "StaticDir" -> StaticDir(x, cb.arg, p, fuel)
        [] cb.kind = "StaticFile" -> StaticFile(x, cb.arg, fuel)

\* the status callRoute gives the Data before the callback runs
StartStatus(rt) ==
  IF rt.id = route404.id THEN 404 ELSE IF rt.id = route500.id THEN 500 ELSE 200

\* Router.callRoute
callRoute(x, rt, url, fuel) ==
  IF fuel = 0 THEN [x EXCEPT !.diverged = TRUE]
  ELSE LET p == IF Len(rt.params) > 0 THEN Params(rt, url) ELSE EmptyMap
           call == [id |-> rt.id, status |-> StartStatus(rt), url |-> url, params |-> p]
           Markup(x2) ==
             IF HTML(rt) # <<>> /\ ~x2.diverged
             THEN serveHTML(x2, FALSE, HTML(rt), <<"/">>, fuel)
             ELSE x2
       IN  Markup(Invoke([x EXCEPT !.calls = Append(@, call)], rt, p, fuel))

\* ------------------------------------------------------------------------
\* operations
\* ------------------------------------------------------------------------

\* the number of routes one behaviour allocates (createRoute, Set404, Set500)
MaxAlloc == 3

\* the nesting of callRoute the model follows before it gives up
MaxDepth == 4

\* the number of goroutines that call into the router at the same time
MaxWorkers == 2

Workers == 1..MaxWorkers

\* no route yet
NoRoute == BareRoute(0, Callback("none", <<>>))

\* a goroutine that is in no call of the router
Idle ==
  [pc |-> "idle", op |-> "none", method |-> <<>>, url0 |-> <<>>, url |-> <<>>,
   key |-> <<>>, rt |-> NoRoute, res |-> 0, text |-> <<>>, dir |-> <<>>,
   arg |-> <<>>, ver |-> 0]

\* a sync.RWMutex nobody holds
Free == [holder |-> 0, readers |-> {}]

Quiet ==
  [op |-> "none", arg |-> <<>>, method |-> <<>>, url |-> <<>>, key |-> <<>>,
   scanned |-> FALSE, resolved |-> 0, calls |-> <<>>, body |-> <<>>,
   nfKeys |-> {}, fail |-> "none", docHit |-> <<>>, parsed |-> FALSE,
   diverged |-> FALSE, path |-> <<>>]

\* NewRouter
Init ==
  /\ routes = <<>>
  /\ lateRoutes = <<>>
  /\ route404 = BareRoute(1, Callback("default404", <<>>))
  /\ route500 = BareRoute(2, Callback("default500", <<>>))
  /\ routeCache = EmptyMap
  /\ htmlCache = EmptyMap
  /\ noCache \in BOOLEAN
  /\ htmlDisabled \in BOOLEAN
  /\ nextId = 3
  /\ crashed = FALSE
  /\ last = Quiet
  /\ firstRes = EmptyMap
  /\ htmlOrigin = EmptyMap
  /\ was404 = {1}
  /\ pending = {}
  /\ env \in SUBSET {DEV}
  /\ workers = [w \in Workers |-> Idle]
  /\ routeMutex = Free
  /\ htmlMutex = Free
  /\ settled = [ver |-> 0, strs |-> {}]

CanAlloc == ~crashed /\ nextId - 3 < MaxAlloc

\* Router.createRoute
createRoute(str, cb, mthd, late) ==
  /\ CanAlloc
  /\ IF late
     THEN /\ lateRoutes' = Append(lateRoutes, NewRoute(nextId, mthd, str, cb))
          /\ UNCHANGED routes
     ELSE /\ routes' = Append(routes, NewRoute(nextId, mthd, str, cb))
          /\ UNCHANGED lateRoutes
  /\ nextId' = nextId + 1
  /\ last' = [Quiet EXCEPT !.op = IF late THEN "LateRoute" ELSE "Route"]
  /\ UNCHANGED <<conc, env, route404, route500, routeCache, htmlCache, noCache, htmlDisabled,
                 crashed, firstRes, htmlOrigin, was404, pending>>

\* Router.Route
Route(method, str, cb) == createRoute(str, cb, method, FALSE)

\* Router.LateRoute
LateRoute(method, str, cb) == createRoute(str, cb, method, TRUE)

\* Router.Set404
Set404(cb) ==
  /\ CanAlloc
  /\ route404' = BareRoute(nextId, cb)
  /\ was404' = was404 \cup {nextId}
  /\ nextId' = nextId + 1
  /\ last' = [Quiet EXCEPT !.op = "Set404"]
  /\ UNCHANGED <<conc, env, routes, lateRoutes, route500, routeCache, htmlCache, noCache,
                 htmlDisabled, crashed, firstRes, htmlOrigin, pending>>

\* Router.Set500
Set500(cb) ==
  /\ CanAlloc
  /\ route500' = BareRoute(nextId, cb)
  /\ nextId' = nextId + 1
  /\ last' = [Quiet EXCEPT !.op = "Set500"]
  /\ UNCHANGED <<conc, env, routes, lateRoutes, route404, routeCache, htmlCache, noCache,
                 htmlDisabled, crashed, firstRes, htmlOrigin, was404, pending>>

\* one range loop of Router.ServeHTTP: the index of the first route of rts
\* from i on with the request's method whose pattern matches, 0 if none
RECURSIVE ScanFrom(_, _, _, _)
ScanFrom(rts, i, method, url) ==
  IF i > Len(rts) THEN 0
  ELSE IF rts[i].method = method /\ MatchString(rts[i].pattern, url) THEN i
  ELSE ScanFrom(rts, i + 1, method, url)

\* a slip in the scan: the late tier is searched before the primary tier
ScanTableLateFirst(method, url) ==
  LET i == ScanFrom(routes, 1, method, url)
      j == ScanFrom(lateRoutes, 1, method, url)
  IN  IF j # 0 THEN lateRoutes[j] ELSE IF i # 0 THEN routes[i] ELSE route404

\* the two loops of Router.ServeHTTP and the fall through to route404
ScanTable(method, url) ==
  LET i == ScanFrom(routes, 1, method, url)
      j == ScanFrom(lateRoutes, 1, method, url)
  IN  IF i # 0 THEN routes[i] ELSE IF j # 0 THEN lateRoutes[j] ELSE route404

\* a slip in the lookup: the cached route is never used
UseCacheNever(cacheName) == FALSE

\* Router.ServeHTTP, "cached && !router.noCache"
UseCache(cacheName) == cacheName \in DOMAIN routeCache /\ ~noCache

\* Router.ServeHTTP up to its return: the route RESOLVE picked, whether the
\* table was scanned, and the request after callRoute
Dispatch(method, rawPath) ==
  LET url == Clean(rawPath)
      cacheName == CacheName(method, url)
      hit == UseCache(cacheName)
      rt == IF hit THEN routeCache[cacheName] ELSE ScanTable(method, url)
      x0 == Travel(method, url)
      x1 == IF hit THEN x0 ELSE writeCache(x0, cacheName, rt)
  IN  [url |-> url, key |-> cacheName, scanned |-> ~hit, rt |-> rt,
       x |-> callRoute(x1, rt, url, MaxDepth)]

\* Router.ServeHTTP
ServeHTTP(method, rawPath) ==
  /\ ~crashed
  /\ \E d \in {Dispatch(method, rawPath)} :
       /\ routeCache' = d.x.rc
       /\ htmlCache' = d.x.hc
       /\ htmlOrigin' = d.x.ho
       /\ firstRes' = IF d.key \in DOMAIN firstRes THEN firstRes
                      ELSE Put(firstRes, d.key, d.rt.id)
       /\ pending' = pending \ {d.key}
       /\ last' = [op |-> "ServeHTTP", arg |-> <<>>, method |-> method, url |-> d.url,
                   key |-> d.key, scanned |-> d.scanned, resolved |-> d.rt.id,
                   calls |-> d.x.calls, body |-> d.x.body, nfKeys |-> d.x.nfKeys,
                   fail |-> d.x.fail, docHit |-> d.x.docHit, parsed |-> d.x.parsed,
                   diverged |-> d.x.diverged, path |-> d.x.path]
       /\ crashed' = d.x.diverged
  /\ UNCHANGED <<conc, env, routes, lateRoutes, route404, route500, noCache, htmlDisabled,
                 nextId, was404>>

\* the keys of cache that the expression ClearCache compiles from str matches
Cleared(cache, str) ==
  LET pattern == MustCompile(parsePattern(UpperPlus \o <<" ">> \o str).rx)
  IN  {k \in DOMAIN cache : MatchString(pattern, k)}

\* Router.ClearCache
ClearCache(str) ==
  /\ ~crashed
  /\ routeCache' = Drop(routeCache, Cleared(routeCache, str))
  /\ htmlCache' = Drop(htmlCache, Cleared(htmlCache, str))
  /\ htmlOrigin' = Drop(htmlOrigin, Cleared(htmlCache, str))
  /\ firstRes' = Drop(firstRes, Cleared(routeCache, str))
  /\ last' = [Quiet EXCEPT !.op = "ClearCache", !.arg = str]
  /\ UNCHANGED <<conc, env, routes, lateRoutes, route404, route500, noCache, htmlDisabled,
                 nextId, crashed, was404, pending>>

\* Router.EmptyCache
EmptyCache ==
  /\ ~crashed
  /\ routeCache' = EmptyMap
  /\ htmlCache' = EmptyMap
  /\ htmlOrigin' = EmptyMap
  /\ firstRes' = EmptyMap
  /\ pending' = pending \cup DOMAIN routeCache
  /\ last' = [Quiet EXCEPT !.op = "EmptyCache"]
  /\ UNCHANGED <<conc, env, routes, lateRoutes, route404, route500, noCache, htmlDisabled,
                 nextId, crashed, was404>>

\* router.routes = append(router.routes[:i], router.routes[i+1:]...): the
\* elements after position pos (= i+1, counting from 1) move down one place
\* in the array the slice shares with the range expression; what lies
\* beyond the new length stays
RemoveAt(arr, len, pos) ==
  [j \in 1..Len(arr) |-> IF j >= pos /\ j < len THEN arr[j + 1] ELSE arr[j]]

\* the loop of Router.RemoveRoute. The range expression is evaluated
\* once: i runs over the n indexes the slice had on entry (0-based), rt is
\* read from the shared array arr, len is the current len(router.routes).
\* Slicing router.routes[i+1:] panics when i+1 > len.
RECURSIVE RemoveLoop(_, _, _, _, _, _, _)
RemoveLoop(arr, len, i, str, rc, hc, n) ==
  IF i >= n THEN [routes |-> SubSeq(arr, 1, len), rc |-> rc, hc |-> hc, panic |-> FALSE]
  ELSE IF ~MatchString(arr[i + 1].pattern, str)
  THEN RemoveLoop(arr, len, i + 1, str, rc, hc, n)
  ELSE IF i + 1 > len
  THEN [routes |-> SubSeq(arr, 1, len), rc |-> rc, hc |-> hc, panic |-> TRUE]
  ELSE RemoveLoop(RemoveAt(arr, len, i + 1), len - 1, i + 1, str,
                  Drop(rc, Cleared(rc, str)), Drop(hc, Cleared(hc, str)), n)

\* Router.RemoveRoute
RemoveRoute(str) ==
  /\ ~crashed
  /\ \E r \in {RemoveLoop(routes, Len(routes), 0, str, routeCache, htmlCache, Len(routes))} :
         /\ routes' = r.routes
         /\ routeCache' = r.rc
         /\ htmlCache' = r.hc
         /\ htmlOrigin' = Drop(htmlOrigin, DOMAIN htmlCache \ DOMAIN r.hc)
         /\ firstRes' = Drop(firstRes, DOMAIN routeCache \ DOMAIN r.rc)
         /\ crashed' = r.panic
  /\ last' = [Quiet EXCEPT !.op = "RemoveRoute", !.arg = str]
  /\ UNCHANGED <<conc, env, lateRoutes, route404, route500, noCache, htmlDisabled, nextId, was404, pending>>

\* ------------------------------------------------------------------------
\* the calls a program makes
\* ------------------------------------------------------------------------

GET == <<"G", "E", "T">>

POST == <<"P", "O", "S", "T">>

Root == <<"/">>

UsersName == <<"/", "u", "/", "@", "n">>

UsersDoug == <<"/", "u", "/", "d">>

UsersDougExtra == <<"/", "u", "/", "d", "/", "x">>

\* two routes that overlap on /u/d, the second one signalling NotFound
RouteMenu ==
  { <<GET, UsersName, Callback("write", <<"A">>)>>,
    <<GET, UsersDoug, Callback("notfound", <<>>)>> }

\* requests: the overlap (in a form path.Clean rewrites), a longer path
\* and another method
RequestMenu ==
  { <<GET, <<"/", "u", "/", "/", "d", "/">>>>, <<GET, UsersDougExtra>>, <<POST, UsersDoug>> }

Next ==
  \/ \E r \in RouteMenu : Route(r[1], r[2], r[3])
  \/ \E r \in RouteMenu : LateRoute(r[1], r[2], r[3])
  \/ \E q \in RequestMenu : ServeHTTP(q[1], q[2])
  \/ ClearCache(UsersName)

\* NewRouter with NOHTML and DEV unset
InitHTML == Init /\ ~htmlDisabled /\ env = {}

\* registration, dispatch and invalidation
Spec == InitHTML /\ [][Next]_vars

\* ------------------------------------------------------------------------
\* dispatch precedence and the request cache
\* ------------------------------------------------------------------------

\* the positions of rts whose route accepts the request
Matching(rts, method, url) ==
  {i \in 1..Len(rts) : rts[i].method = method /\ MatchString(rts[i].pattern, url)}

\* the route the precedence rule names: the earliest matching primary
\* route, else the earliest matching late route, else the fallback
Precedence(method, url) ==
  IF Matching(routes, method, url) # {}
  THEN routes[SetMin(Matching(routes, method, url))].id
  ELSE IF Matching(lateRoutes, method, url) # {}
  THEN lateRoutes[SetMin(Matching(lateRoutes, method, url))].id
  ELSE route404.id

\* C1: a dispatch whose key is not in the request cache (an empty cache in
\* particular) resolves to the earliest-registered matching primary route,
\* to the earliest-registered matching late route only when no primary
\* route matches, and to the not-found fallback only when no route matches.
C1_Precedence ==
  [][(last'.op = "ServeHTTP" /\ last'.key \notin DOMAIN routeCache)
       => last'.resolved = Precedence(last'.method, last'.url)]_vars

\* a dispatch on an empty cache picked the first of two matching primary
\* routes although a matching late route had been registered before both
C1_Witness ==
  /\ last.op = "ServeHTTP" /\ last.scanned
  /\ DOMAIN routeCache = {last.key}
  /\ Cardinality(Matching(routes, last.method, last.url)) >= 2
  /\ \E j \in Matching(lateRoutes, last.method, last.url) : lateRoutes[j].id < routes[1].id
  /\ last.resolved = routes[1].id

\* C2 as stated: with caching enabled, every dispatch of a key after its
\* first one resolves, without a scan, to the route the first one resolved
\* to, until the key is invalidated.
C2_SameAsFirst ==
  [][(last'.op = "ServeHTTP" /\ ~noCache /\ last'.key \in DOMAIN firstRes)
       => (~last'.scanned /\ last'.resolved = firstRes[last'.key])]_vars

\* C2, amended: with caching enabled, a dispatch of a key that is in the
\* request cache resolves to the cached route without a scan, whatever has
\* been registered since; the entry of a dispatched key stays until it is
\* invalidated and is the route the first dispatch resolved to, unless a
\* NotFound signal for that key has replaced it by the not-found fallback.
C2_CachedRoute ==
  /\ [][(last'.op = "ServeHTTP" /\ ~noCache /\ last'.key \in DOMAIN routeCache)
          => (~last'.scanned /\ last'.resolved = routeCache[last'.key].id)]_vars
  /\ [][\A k \in DOMAIN routeCache :
          (~noCache /\ k \in DOMAIN routeCache' /\ routeCache'[k] # routeCache[k])
            => (last'.op = "ServeHTTP" /\ k \in last'.nfKeys /\ routeCache'[k] = route404)]_vars
  /\ [](~noCache =>
          \A k \in DOMAIN firstRes :
            /\ k \in DOMAIN routeCache
            /\ routeCache[k].id = firstRes[k] \/ routeCache[k].id \in was404)

\* a key was first resolved to the not-found fallback, a matching route was
\* registered afterwards, and the key was served from the cache again
C2_Witness ==
  /\ ~noCache
  /\ last.op = "ServeHTTP" /\ ~last.scanned
  /\ last.resolved = route404.id
  /\ firstRes[last.key] = route404.id
  /\ Precedence(last.method, last.url) # route404.id

\* ------------------------------------------------------------------------
\* invalidation by pattern
\* ------------------------------------------------------------------------

UsersDougSlash == <<"/", "u", "/", "d", "/">>

\* a placeholder route and the root
ClearRouteMenu ==
  { <<GET, UsersName, Callback("write", <<"A">>)>>,
    <<GET, Root, Callback("write", <<"B">>)>> }

ClearRequestMenu ==
  { <<GET, UsersDoug>>, <<GET, UsersDougExtra>>, <<POST, UsersDoug>>, <<GET, Root>> }

\* a pattern with a placeholder, a literal path with a trailing slash, the root
ClearMenu == {UsersName, UsersDougSlash, Root}

NextClear ==
  \/ \E r \in ClearRouteMenu : Route(r[1], r[2], r[3])
  \/ \E q \in ClearRequestMenu : ServeHTTP(q[1], q[2])
  \/ \E p \in ClearMenu : ClearCache(p)

\* registration, dispatch and invalidation by pattern
SpecClear == InitHTML /\ [][NextClear]_vars

\* the path part of a request-cache key
PathOf(key) == SubSeq(key, Index(key, <<" ">>) + 1, Len(key))

\* the keys whose path part the route pattern compiled from str matches
PathMatches(cache, str) ==
  {k \in DOMAIN cache : MatchString(MustCompile(parsePattern(str).rx), PathOf(k))}

\* C3: after ClearCache(p) the request cache holds exactly the prior
\* entries whose path does not match p compiled as a route pattern: the
\* matching entries are gone for every method, the others are unchanged.
C3_ClearExact ==
  [][last'.op = "ClearCache"
       => routeCache' = Drop(routeCache, PathMatches(routeCache, last'.arg))]_vars

\* ------------------------------------------------------------------------
\* removal
\* ------------------------------------------------------------------------

\* two routes that match /u/d and one that does not
RemoveRouteMenu ==
  { <<GET, UsersName, Callback("write", <<"A">>)>>,
    <<GET, UsersDoug, Callback("write", <<"D">>)>>,
    <<GET, Root, Callback("write", <<"B">>)>> }

RemoveRequestMenu == { <<GET, UsersDoug>>, <<GET, Root>> }

NextRemove ==
  \/ \E r \in RemoveRouteMenu : Route(r[1], r[2], r[3])
  \/ LateRoute(GET, UsersName, Callback("write", <<"L">>))
  \/ \E q \in RemoveRequestMenu : ServeHTTP(q[1], q[2])
  \/ RemoveRoute(UsersDoug)

\* registration, dispatch and removal
SpecRemove == InitHTML /\ [][NextRemove]_vars

\* rts without the routes whose pattern matches str, order kept
Without(rts, str) ==
  LET Keep(rt) == ~MatchString(rt.pattern, str)
  IN  SelectSeq(rts, Keep)

\* C6: RemoveRoute(s) completes normally and leaves the primary tier equal
\* to the prior sequence without the routes whose matcher matches s, the
\* remaining routes in their order, and the late tier unchanged.
C6_RemoveAll ==
  [][last'.op = "RemoveRoute"
       => /\ ~crashed'
          /\ routes' = Without(routes, last'.arg)
          /\ lateRoutes' = lateRoutes]_vars

\* ------------------------------------------------------------------------
\* static serving
\* ------------------------------------------------------------------------

XHtml == <<"x">> \o DotHtml

\* two mounts with different roots
StaticRouteMenu ==
  { <<GET, Dir(<<"/", "a">>), Callback("StaticDir", <<"s">>)>>,
    <<GET, Dir(<<"/", "b">>), Callback("StaticDir", <<"t">>)>> }

MTxt == <<"m", ".", "t", "x", "t">>

\* the same document name under both mounts
StaticRequestMenu ==
  { <<GET, <<"/", "a", "/">> \o XHtml>>,
    <<GET, <<"/", "b", "/">> \o XHtml>> }

\* the request path of a document, and the whole mount
StaticClearMenu == { <<"/", "a", "/">> \o XHtml, <<"/", "a", "/", "@", "@", "f">> }

NextStatic ==
  \/ \E r \in StaticRouteMenu : Route(r[1], r[2], r[3])
  \/ \E q \in StaticRequestMenu : ServeHTTP(q[1], q[2])
  \/ \E p \in StaticClearMenu : ClearCache(p)

\* static mounts, dispatch and invalidation
SpecStatic == InitHTML /\ [][NextStatic]_vars

MountA == <<GET, Dir(<<"/", "a">>), Callback("StaticDir", <<"s">>)>>

\* a document, a page whose include is missing, a file that cannot be
\* read, a missing file
MissingRequestMenu ==
  { <<GET, <<"/", "a", "/">> \o XHtml>>,
    <<GET, <<"/", "a", "/", "y">> \o DotHtml>>,
    <<GET, <<"/", "a", "/", "z">> \o DotHtml>>,
    <<GET, <<"/", "a", "/">> \o MTxt>> }

NextMissing ==
  \/ Route(MountA[1], MountA[2], MountA[3])
  \/ \E q \in MissingRequestMenu : ServeHTTP(q[1], q[2])

\* a static mount and requests for files that cannot be served
SpecMissing == InitHTML /\ [][NextMissing]_vars

\* a handler that signals NotFound, and the mount
FallbackRouteMenu == { <<GET, UsersDoug, Callback("notfound", <<>>)>>, MountA }

\* the NotFound handler, an unregistered path, a page whose include is missing
FallbackRequestMenu ==
  { <<GET, UsersDoug>>, <<GET, UsersDougExtra>>, <<GET, <<"/", "a", "/", "y">> \o DotHtml>> }

NextFallback ==
  \/ \E r \in FallbackRouteMenu : Route(r[1], r[2], r[3])
  \/ Set404(Callback("write", <<"N">>))
  \/ Set500(Callback("write", <<"E">>))
  \/ \E q \in FallbackRequestMenu : ServeHTTP(q[1], q[2])
  \/ ClearCache(UsersName)

\* custom fallbacks, dispatch and invalidation
SpecFallback == InitHTML /\ [][NextFallback]_vars

\* a document, a missing file, and the path the mount rewrites the
\* missing file's request to
EmptyRequestMenu ==
  { <<GET, <<"/", "a", "/">> \o XHtml>>,
    <<GET, <<"/", "a", "/">> \o MTxt>>,
    <<GET, <<"/">> \o MTxt>> }

NextEmpty ==
  \/ Route(MountA[1], MountA[2], MountA[3])
  \/ \E q \in EmptyRequestMenu : ServeHTTP(q[1], q[2])
  \/ EmptyCache

\* a static mount, dispatch and the full clear
SpecEmpty == Init /\ [][NextEmpty]_vars

\* C4: after EmptyCache both caches are empty, and the next dispatch of
\* every key that was cached performs a fresh scan of the route table.
C4_EmptyThenScan ==
  [][/\ last'.op = "EmptyCache" => (routeCache' = EmptyMap /\ htmlCache' = EmptyMap)
     /\ (last'.op = "ServeHTTP" /\ last'.key \in pending) => last'.scanned]_vars

\* C5: after ClearCache(p) the document cache holds no entry whose request
\* path matches the route pattern p.
C5_DocumentsCleared ==
  [][last'.op = "ClearCache"
       => \A u \in DOMAIN htmlCache' :
            ~MatchString(MustCompile(parsePattern(last'.arg).rx), htmlOrigin'[u])]_vars

\* the request ended in the fallback with this status
EndsIn(status) ==
  /\ last.calls # <<>>
  /\ last.calls[Len(last.calls)].status = status
  /\ last.calls[Len(last.calls)].id \in {route404.id, route500.id}

\* C7: a request whose include file or static .html file cannot be read
\* ends in the not-found fallback (404) when the file does not exist and
\* in the server-error fallback (500) for any other read failure.
C7_UnreadableMapsToFallback ==
  /\ (last.op = "ServeHTTP" /\ last.fail = "ErrNotExist") => EndsIn(404)
  /\ (last.op = "ServeHTTP" /\ last.fail \notin {"none", "ErrNotExist"}) => EndsIn(500)

\* C8: every call of a route that is or was the not-found fallback starts
\* with status 404, whether the route came from the scan, from the request
\* cache or from a NotFound signal; every call of the server-error fallback
\* starts with status 500; every other call starts with status 200.
C8_ForcedStatus ==
  last.op = "ServeHTTP"
    => \A i \in 1..Len(last.calls) :
         last.calls[i].status =
           IF last.calls[i].id \in was404 THEN 404
           ELSE IF last.calls[i].id = route500.id THEN 500 ELSE 200

\* C9: a NotFound signal runs the not-found fallback for the request's
\* original normalized path and writes the request cache under the key of
\* that request only; no other key is created or overwritten.
C9_NotFoundKey ==
  [][(last'.op = "ServeHTTP" /\ last'.nfKeys # {})
       => /\ last'.nfKeys = {last'.key}
          /\ \A i \in 1..Len(last'.calls) :
               last'.calls[i].id = route404.id => last'.calls[i].url = last'.url
          /\ \A k \in (DOMAIN routeCache \cup DOMAIN routeCache') \ {last'.key} :
               /\ k \in DOMAIN routeCache /\ k \in DOMAIN routeCache'
               /\ routeCache'[k] = routeCache[k]]_vars

\* C10: a document-cache hit serves the text that was resolved for the same
\* request path.
C10_DocumentOfSamePath ==
  [][last'.op = "ServeHTTP"
       => \A i \in 1..Len(last'.docHit) : htmlOrigin[last'.docHit[i]] = last'.url]_vars

\* ------------------------------------------------------------------------
\* placeholders
\* ------------------------------------------------------------------------

FilesPath == <<"/", "f", "/", "@", "@", "p">>

\* a placeholder whose name begins with the name of an earlier one
AThenAb == <<"/", "@", "a", "/", "@", "@", "a", "b">>

ParamStrings == {UsersName, FilesPath, AThenAb}

ParamRouteMenu == {<<GET, str, Callback("write", <<"A">>)>> : str \in ParamStrings}

ParamRequestMenu ==
  { <<GET, UsersDoug>>, <<GET, UsersDougExtra>>, <<GET, <<"/", "f", "/", "a", "/", "b">>>> }

NextParams ==
  \/ \E r \in ParamRouteMenu : Route(r[1], r[2], r[3])
  \/ \E q \in ParamRequestMenu : ServeHTTP(q[1], q[2])

\* routes with placeholders and dispatch
SpecParams == InitHTML /\ [][NextParams]_vars

\* the segments of a route string or of a normalized path
Segments(str) == Tail(SplitSlash(str))

\* the bindings a route string allows for a path, segment by segment: a
\* literal segment equals the path's, @name takes one non-empty segment,
\* @@name takes one or more segments; each binding lists <<name, value>>
\* from left to right
RECURSIVE Bindings(_, _)
Bindings(ps, us) ==
  IF ps = <<>> THEN (IF us = <<>> THEN {<<>>} ELSE {})
  ELSE IF us = <<>> THEN {}
  ELSE LET seg == Head(ps)
       IN  IF HasPrefix(seg, <<"@", "@">>)
           THEN UNION { { <<<<SubSeq(seg, 3, Len(seg)), JoinSlash(SubSeq(us, 1, k))>>>> \o b :
                          b \in Bindings(Tail(ps), SubSeq(us, k + 1, Len(us))) } :
                        k \in 1..Len(us) }
           ELSE IF HasPrefix(seg, <<"@">>)
           THEN IF Head(us) = <<>> THEN {}
                ELSE { <<<<Tail(seg), Head(us)>>>> \o b : b \in Bindings(Tail(ps), Tail(us)) }
           ELSE IF seg = Head(us) THEN Bindings(Tail(ps), Tail(us)) ELSE {}

\* a binding as the map from names to values
AsParams(b) ==
  [name \in {b[i][1] : i \in 1..Len(b)} |->
     b[CHOOSE i \in 1..Len(b) : b[i][1] = name][2]]

\* the route string a route of the table was registered with
StrOf(rt) == CHOOSE str \in ParamStrings : MustCompile(parsePattern(str).rx) = rt.pattern

\* C11: a route string matches a path exactly when its segments match the
\* whole path with each @name taking one segment without '/' and each
\* @@name one or more segments, and on a match the handler's parameters
\* are those values under the declared names.
C11_Placeholders ==
  [][(last'.op = "ServeHTTP" /\ last'.scanned)
       => /\ \A i \in 1..Len(routes) :
               last'.resolved = routes[i].id
                 => \E b \in Bindings(Segments(StrOf(routes[i])), Segments(last'.url)) :
                      last'.calls[1].params = AsParams(b)
          /\ last'.resolved = route404.id
               => \A i \in 1..Len(routes) :
                    Bindings(Segments(StrOf(routes[i])), Segments(last'.url)) = {}]_vars

\* ------------------------------------------------------------------------
\* includes
\* ------------------------------------------------------------------------

NHtml == <<"/", "a", "/", "n">> \o DotHtml

SubAHtml == <<"/", "a", "/", "s", "u", "b", "/", "a">> \o DotHtml

\* a page that includes a page of a subdirectory, that page itself, and a
\* page with a plain include
IncludeRequestMenu == { <<GET, NHtml>>, <<GET, SubAHtml>>, <<GET, <<"/", "a", "/">> \o XHtml>> }

NextInclude ==
  \/ Route(MountA[1], MountA[2], MountA[3])
  \/ \E q \in IncludeRequestMenu : ServeHTTP(q[1], q[2])
  \/ ClearCache(<<"/", "a", "/", "@", "@", "f">>)
  \/ EmptyCache

\* a static mount and pages with nested includes
SpecInclude == InitHTML /\ [][NextInclude]_vars

\* the text of the file fn with every include directive replaced by the
\* resolved text of the file it names, relative to the directory of fn
RECURSIVE Resolved(_)
RECURSIVE ResolvedItems(_, _)
ResolvedItems(items, dir) ==
  IF items = <<>> THEN <<>>
  ELSE (IF IsIncludeTag(Head(items)) THEN Resolved(Join(dir, Head(items).path))
        ELSE <<Head(items)>>) \o ResolvedItems(Tail(items), dir)

Resolved(fn) == ResolvedItems(Files[fn].content, PathDir(fn))

\* C12: the document the preprocessor produces for a file is the file's
\* text with each include directive replaced by the resolved text of the
\* file at (directory of the including file)/(path of the directive).
C12_IncludeRelative ==
  [][(last'.op = "ServeHTTP" /\ last'.parsed /\ last'.fail = "none"
        /\ last'.resolved \notin {route404.id, route500.id})
       => last'.body = Resolved(Join(MountA[3].arg, last'.path))]_vars

\* ------------------------------------------------------------------------
\* conditional directives
\* ------------------------------------------------------------------------

CHtml == <<"/", "a", "/", "c">> \o DotHtml

DHtml == <<"/", "a", "/", "d">> \o DotHtml

CondRequestMenu == { <<GET, CHtml>>, <<GET, DHtml>> }

NextCond ==
  \/ Route(MountA[1], MountA[2], MountA[3])
  \/ \E q \in CondRequestMenu : ServeHTTP(q[1], q[2])
  \/ EmptyCache

\* NewRouter with NOHTML unset, DEV set or not
InitCond == Init /\ ~htmlDisabled

\* a static mount and pages with conditional directives
SpecCond == InitCond /\ [][NextCond]_vars

\* items with every directive `if $NAME { text }` replaced by text when
\* NAME is set and by nothing otherwise, and `if !$NAME { text }` the
\* other way round
RECURSIVE Conditioned(_)
Conditioned(items) ==
  IF items = <<>> THEN <<>>
  ELSE IF Head(items).t = "if"
  THEN LET j == SetMin({k \in 2..Len(items) : items[k].t = "fi"})
           holds == (Head(items).v \in env) # (Head(items).path = <<"!">>)
       IN  (IF holds THEN SubSeq(items, 2, j - 1) ELSE <<>>)
           \o Conditioned(SubSeq(items, j + 1, Len(items)))
  ELSE <<Head(items)>> \o Conditioned(Tail(items))

\* a text without its white space
Visible(items) ==
  LET Inked(item) == ~IsSpace(item)
  IN  SelectSeq(items, Inked)

\* C13: in the document served, white space aside, `if $NAME { text }`
\* has become text when NAME is set to a non-empty value and nothing
\* otherwise, and `if !$NAME { text }` the exact opposite.
C13_Conditionals ==
  [][(last'.op = "ServeHTTP" /\ last'.parsed /\ last'.fail = "none"
        /\ last'.resolved \notin {route404.id, route500.id})
       => Visible(last'.body)
            = Visible(Conditioned(Files[Join(MountA[3].arg, last'.path)].content))]_vars

\* ------------------------------------------------------------------------
\* handler-produced markup
\* ------------------------------------------------------------------------

SlashXHtml == <<"/">> \o XHtml

SlashG == <<"/", "g">>

\* a handler whose markup includes s/p.html, at the path the mount caches
\* s/x.html under; a handler whose markup includes a missing file; the mount
DynamicRouteMenu ==
  { <<GET, SlashXHtml, Callback("html", <<"s", "/", "p">> \o DotHtml)>>,
    <<GET, SlashG, Callback("html", <<"m">> \o DotHtml)>>,
    MountA }

DynamicRequestMenu ==
  { <<GET, SlashXHtml>>, <<GET, SlashG>>, <<GET, <<"/", "a", "/">> \o XHtml>> }

NextDynamic ==
  \/ \E r \in DynamicRouteMenu : Route(r[1], r[2], r[3])
  \/ Set500(Callback("StaticFile", <<"s", "/">> \o XHtml))
  \/ \E q \in DynamicRequestMenu : ServeHTTP(q[1], q[2])

\* handlers that fill the markup buffer next to a static mount
SpecDynamic == InitHTML /\ [][NextDynamic]_vars

\* the route with this identity is a handler that only fills the markup buffer
Dynamic(id) ==
  \E i \in 1..Len(routes) : routes[i].id = id /\ routes[i].callback.kind = "html"

HelperMenu ==
  { Callback("StaticDir", <<"s">>),
    Callback("StaticFile", <<"s", "/">> \o MTxt) }

\* a missing file, a file that cannot be read, a path with no route
HelperRequestMenu ==
  { <<GET, <<"/", "a", "/">> \o MTxt>>,
    <<GET, <<"/", "a", "/", "z">> \o DotHtml>>,
    <<GET, <<"/", "q">>>> }

NextHelpers ==
  \/ (routes = <<>> /\ Route(MountA[1], MountA[2], MountA[3]))
  \/ \E cb \in HelperMenu : route404.id = 1 /\ Set404(cb)
  \/ \E cb \in HelperMenu : route500.id = 2 /\ Set500(cb)
  \/ \E q \in HelperRequestMenu : ServeHTTP(q[1], q[2])

\* a static mount, static helpers as the fallbacks, and dispatch
SpecHelpers == InitHTML /\ [][NextHelpers]_vars

\* C17: every dispatch returns after finitely many handler invocations,
\* whatever static helpers are the routes and the fallbacks and whether or
\* not the files they serve exist.
C17_DispatchReturns ==
  [][last'.op = "ServeHTTP" => ~last'.diverged]_vars

\* ------------------------------------------------------------------------
\* the paths a mount accepts
\* ------------------------------------------------------------------------

\* the mount itself, a document under it, a path that continues the
\* prefix without a separator, a path outside it
DirRequestMenu ==
  { <<GET, <<"/", "a">>>>,
    <<GET, <<"/", "a", "/">> \o XHtml>>,
    <<GET, <<"/", "a">> \o XHtml>>,
    <<GET, <<"/", "b">>>> }

NextDir ==
  \/ (routes = <<>> /\ Route(MountA[1], MountA[2], MountA[3]))
  \/ \E q \in DirRequestMenu : ServeHTTP(q[1], q[2])
  \/ ClearCache(<<"/", "@", "@", "f">>)

\* a static mount, dispatch and invalidation
SpecDir == InitHTML /\ [][NextDir]_vars

\* the path is the prefix followed by "/" and more
Under(prefix, url) == HasPrefix(url, prefix \o <<"/">>) /\ Len(url) > Len(prefix) + 1

\* C19: a scan of a table that holds the route Dir("/a") resolves to that
\* route exactly when the path is /a or begins with /a/, and in the second
\* case binds path to what follows the slash.
C19_DirMatches ==
  [][(last'.op = "ServeHTTP" /\ last'.scanned /\ routes # <<>>) =>
       /\ (last'.resolved = routes[1].id)
            <=> (last'.url = <<"/", "a">> \/ Under(<<"/", "a">>, last'.url))
       /\ (last'.resolved = routes[1].id /\ Under(<<"/", "a">>, last'.url))
            => last'.calls[1].params
                 = (ParamPath :> SubSeq(last'.url, 4, Len(last'.url)))]_vars

\* ------------------------------------------------------------------------
\* the routes the request cache refers to
\* ------------------------------------------------------------------------

UsersX == <<"/", "u", "/", "x">>

\* two paths of the route /u/@n and a path no route matches
LiveRequestMenu == { <<GET, UsersDoug>>, <<GET, UsersX>>, <<GET, SlashG>> }

NextLive ==
  \/ Route(GET, UsersName, Callback("write", <<"A">>))
  \/ Set404(Callback("write", <<"N">>))
  \/ \E q \in LiveRequestMenu : ServeHTTP(q[1], q[2])
  \/ RemoveRoute(UsersDoug)

\* registration, a new not-found fallback, dispatch and removal
SpecLive == InitHTML /\ [][NextLive]_vars

\* the identities of the routes the route table holds
Held ==
  {routes[i].id : i \in 1..Len(routes)}
    \cup {lateRoutes[i].id : i \in 1..Len(lateRoutes)} \cup {route404.id}

\* C15: every route a request-cache entry refers to is held by the route
\* table (primary tier, late tier or the current not-found fallback), and a
\* dispatch served from the cache is served by such a route.
C15_CachedRoutesHeld ==
  /\ \A k \in DOMAIN routeCache : routeCache[k].id \in Held
  /\ (last.op = "ServeHTTP" /\ ~last.scanned) => last.resolved \in Held

\* ------------------------------------------------------------------------
\* goroutines: the calls of the router, one lock operation at a time
\* ------------------------------------------------------------------------

\* what no step of a call into the caches changes
fixed ==
  <<routes, lateRoutes, route404, route500, noCache, htmlDisabled, nextId,
    crashed, last, firstRes, was404, pending, env>>

\* the places where a goroutine has called Lock or RLock and waits
RouteLockPcs == {"Lock", "cLock", "eLock"}

RouteRLockPcs == {"RLock"}

HtmlLockPcs == {"hLock", "chLock", "ehLock"}

HtmlRLockPcs == {"hRLock"}

Pending(pcs) == \E v \in Workers : workers[v].pc \in pcs

\* sync.RWMutex.RLock returns: the goroutine was let in by the last Unlock,
\* or no writer holds the lock or waits for it
CanRLock(m, w, lockPcs) == w \in m.readers \/ (m.holder = 0 /\ ~Pending(lockPcs))

\* sync.RWMutex.Lock returns: no writer holds the lock, all readers have left
CanLock(m) == m.holder = 0 /\ m.readers = {}

\* sync.RWMutex.Unlock: the readers that wait are let in before the next writer
Unlocked(rlockPcs) ==
  [holder |-> 0, readers |-> {v \in Workers : workers[v].pc \in rlockPcs}]

\* the goroutine w goes on as rec
Becomes(w, rec) == workers' = [workers EXCEPT ![w] = rec]

\* the key was matched by a ClearCache that began and returned after the
\* last registration
Settled(key) ==
  /\ settled.ver = nextId
  /\ \E str \in settled.strs :
       MatchString(MustCompile(parsePattern(UpperPlus \o <<" ">> \o str).rx), key)

\* Router.ServeHTTP is called
ServeHTTPBegin(w, method, rawPath) ==
  /\ workers[w].pc = "idle"
  /\ LET url == Clean(rawPath)
         cacheName == CacheName(method, url)
     IN  Becomes(w, [Idle EXCEPT !.pc = "RLock", !.op = "ServeHTTP", !.method = method,
                                 !.url0 = url, !.url = url, !.key = cacheName,
                                 !.ver = IF Settled(cacheName) THEN nextId ELSE 0])
  /\ UNCHANGED <<fixed, routeCache, htmlCache, htmlOrigin, routeMutex, htmlMutex, settled>>

\* Router.ServeHTTP, router.routeMutex.RLock()
ServeHTTPRLock(w) ==
  /\ workers[w].pc = "RLock"
  /\ CanRLock(routeMutex, w, RouteLockPcs)
  /\ routeMutex' = [routeMutex EXCEPT !.readers = @ \cup {w}]
  /\ Becomes(w, [workers[w] EXCEPT !.pc = "RUnlock"])
  /\ UNCHANGED <<fixed, routeCache, htmlCache, htmlOrigin, htmlMutex, settled>>

\* Router.ServeHTTP, the lookup and router.routeMutex.RUnlock()
ServeHTTPRUnlock(w) ==
  /\ workers[w].pc = "RUnlock"
  /\ routeMutex' = [routeMutex EXCEPT !.readers = @ \ {w}]
  /\ LET self == workers[w]
         cached == self.key \in DOMAIN routeCache
     IN  IF cached /\ ~noCache
         THEN Becomes(w, [self EXCEPT !.pc = "callRoute", !.rt = routeCache[self.key],
                                      !.res = routeCache[self.key].id])
         ELSE Becomes(w, [self EXCEPT !.pc = "scan"])
  /\ UNCHANGED <<fixed, routeCache, htmlCache, htmlOrigin, htmlMutex, settled>>

\* Router.ServeHTTP, the two loops up to the call of writeCache
ServeHTTPScan(w) ==
  /\ workers[w].pc = "scan"
  /\ LET self == workers[w]
         rt == ScanTable(self.method, self.url)
     IN  Becomes(w, [self EXCEPT !.pc = "Lock", !.rt = rt, !.res = rt.id])
  /\ UNCHANGED <<fixed, routeCache, htmlCache, htmlOrigin, routeMutex, htmlMutex, settled>>

\* Router.writeCache, router.routeMutex.Lock()
writeCacheLock(w) ==
  /\ workers[w].pc = "Lock"
  /\ CanLock(routeMutex)
  /\ routeMutex' = [routeMutex EXCEPT !.holder = w]
  /\ Becomes(w, [workers[w] EXCEPT !.pc = "Unlock"])
  /\ UNCHANGED <<fixed, routeCache, htmlCache, htmlOrigin, htmlMutex, settled>>

\* Router.writeCache, the write and router.routeMutex.Unlock()
writeCacheUnlock(w) ==
  /\ workers[w].pc = "Unlock"
  /\ routeCache' = Put(routeCache, workers[w].key, workers[w].rt)
  /\ routeMutex' = Unlocked(RouteRLockPcs)
  /\ Becomes(w, [workers[w] EXCEPT !.pc = "callRoute"])
  /\ UNCHANGED <<fixed, htmlCache, htmlOrigin, htmlMutex, settled>>

\* Data.NotFound up to the call of writeCache
NotFoundStep(self) ==
  [self EXCEPT !.pc = "Lock", !.key = CacheName(self.method, Clean(self.url)),
               !.rt = route404]

\* Data.Error up to the call of callRoute
ErrorStep(self) == [self EXCEPT !.pc = "callRoute", !.rt = route500]

\* Router.serveHTMLStatic up to the call of serveHTML
serveHTMLStaticStep(self, dir, fn) ==
  LET file == readHTMLFile(Join(dir, fn))
  IN  IF file.err.failed THEN ErrorStep(self)
      ELSE [self EXCEPT !.pc = "hRLock", !.text = file.str, !.dir = dir]

\* Router.serveHTML after the cache lookup, up to the cache write
serveHTMLStep(self, static, text, dir) ==
  LET res == parseHTML(text, dir)
  IN  IF res.err.failed
      THEN IF ErrorsIs(res.err, "ErrNotExist") THEN NotFoundStep(self) ELSE ErrorStep(self)
      ELSE IF static THEN [self EXCEPT !.pc = "hLock", !.text = res.str]
      ELSE Idle

\* rt.callback(data) up to the first lock operation or the return
Called(self) ==
  LET cb == self.rt.callback
      p == IF Len(self.rt.params) > 0 THEN Params(self.rt, Clean(self.url)) ELSE EmptyMap
      path1 == IF ParamPath \in DOMAIN p THEN <<"/">> \o p[ParamPath] ELSE self.url
      path2 == IF ~htmlDisabled /\ Ext(path1) = <<>>
                  /\ StatOk(Join(Join(cb.arg, path1), IndexHtml))
               THEN Join(path1, IndexHtml) ELSE path1
  IN  CASE cb.kind \in {"write", "default404", "default500"} -> Idle
        [] cb.kind = "notfound" -> NotFoundStep(self)
        [] cb.kind = "html" -> serveHTMLStep(self, FALSE, HTML(self.rt), <<"/">>)
        [] cb.kind = "StaticDir" ->
             IF ~htmlDisabled /\ HasSuffix(path2, DotHtml)
             THEN serveHTMLStaticStep([self EXCEPT !.url = path2], cb.arg, path2)
             ELSE IF ~StatOk(Join(cb.arg, path2))
             THEN NotFoundStep([self EXCEPT !.url = path2])
             ELSE Idle
        [] cb.kind = "StaticFile" ->
             IF ~htmlDisabled /\ HasSuffix(cb.arg, DotHtml)
             THEN serveHTMLStaticStep([self EXCEPT !.url = Base(cb.arg)],
                                      PathDir(cb.arg), Base(cb.arg))
             ELSE IF ~StatOk(Clean(cb.arg)) THEN ErrorStep(self)
             ELSE Idle

\* Router.callRoute
callRouteStep(w) ==
  /\ workers[w].pc = "callRoute"
  /\ Becomes(w, Called(workers[w]))
  /\ UNCHANGED <<fixed, routeCache, htmlCache, htmlOrigin, routeMutex, htmlMutex, settled>>

\* Router.serveHTML, router.htmlMutex.RLock()
serveHTMLRLock(w) ==
  /\ workers[w].pc = "hRLock"
  /\ CanRLock(htmlMutex, w, HtmlLockPcs)
  /\ htmlMutex' = [htmlMutex EXCEPT !.readers = @ \cup {w}]
  /\ Becomes(w, [workers[w] EXCEPT !.pc = "hRUnlock"])
  /\ UNCHANGED <<fixed, routeCache, htmlCache, htmlOrigin, routeMutex, settled>>

\* Router.serveHTML, the lookup, router.htmlMutex.RUnlock() and the parse
serveHTMLRUnlock(w) ==
  /\ workers[w].pc = "hRUnlock"
  /\ htmlMutex' = [htmlMutex EXCEPT !.readers = @ \ {w}]
  /\ LET self == workers[w]
     IN  IF self.url \in DOMAIN htmlCache /\ ~noCache
         THEN Becomes(w, Idle)
         ELSE Becomes(w, serveHTMLStep(self, TRUE, self.text, self.dir))
  /\ UNCHANGED <<fixed, routeCache, htmlCache, htmlOrigin, routeMutex, settled>>

\* Router.serveHTML, router.htmlMutex.Lock()
serveHTMLLock(w) ==
  /\ workers[w].pc = "hLock"
  /\ CanLock(htmlMutex)
  /\ htmlMutex' = [htmlMutex EXCEPT !.holder = w]
  /\ Becomes(w, [workers[w] EXCEPT !.pc = "hUnlock"])
  /\ UNCHANGED <<fixed, routeCache, htmlCache, htmlOrigin, routeMutex, settled>>

\* a slip in serveHTML: htmlMutex is not released after the cache write
serveHTMLUnlockNever(w) ==
  /\ workers[w].pc = "hUnlock"
  /\ htmlCache' = Put(htmlCache, workers[w].url, workers[w].text)
  /\ htmlOrigin' = Put(htmlOrigin, workers[w].url, workers[w].url0)
  /\ Becomes(w, Idle)
  /\ UNCHANGED <<fixed, routeCache, routeMutex, htmlMutex, settled>>

\* Router.serveHTML, the cache write and router.htmlMutex.Unlock()
serveHTMLUnlock(w) ==
  /\ workers[w].pc = "hUnlock"
  /\ htmlCache' = Put(htmlCache, workers[w].url, workers[w].text)
  /\ htmlOrigin' = Put(htmlOrigin, workers[w].url, workers[w].url0)
  /\ htmlMutex' = Unlocked(HtmlRLockPcs)
  /\ Becomes(w, Idle)
  /\ UNCHANGED <<fixed, routeCache, routeMutex, settled>>

\* Router.ClearCache is called
ClearCacheBegin(w, str) ==
  /\ workers[w].pc = "idle"
  /\ Becomes(w, [Idle EXCEPT !.pc = "cLock", !.op = "ClearCache", !.arg = str,
                             !.ver = nextId])
  /\ UNCHANGED <<fixed, routeCache, htmlCache, htmlOrigin, routeMutex, htmlMutex, settled>>

\* Router.ClearCache, router.routeMutex.Lock()
ClearCacheLock(w) ==
  /\ workers[w].pc = "cLock"
  /\ CanLock(routeMutex)
  /\ routeMutex' = [routeMutex EXCEPT !.holder = w]
  /\ Becomes(w, [workers[w] EXCEPT !.pc = "cUnlock"])
  /\ UNCHANGED <<fixed, routeCache, htmlCache, htmlOrigin, htmlMutex, settled>>

\* a slip in ClearCache: routeMutex is kept while the document cache is cleared
ClearCacheUnlockLate(w) ==
  /\ workers[w].pc = "cUnlock"
  /\ routeCache' = Drop(routeCache, Cleared(routeCache, workers[w].arg))
  /\ Becomes(w, [workers[w] EXCEPT !.pc = "chLock"])
  /\ UNCHANGED <<fixed, htmlCache, htmlOrigin, routeMutex, htmlMutex, settled>>

\* Router.ClearCache, the first loop and router.routeMutex.Unlock()
ClearCacheUnlock(w) ==
  /\ workers[w].pc = "cUnlock"
  /\ routeCache' = Drop(routeCache, Cleared(routeCache, workers[w].arg))
  /\ routeMutex' = Unlocked(RouteRLockPcs)
  /\ Becomes(w, [workers[w] EXCEPT !.pc = "chLock"])
  /\ UNCHANGED <<fixed, htmlCache, htmlOrigin, htmlMutex, settled>>

\* Router.ClearCache, router.htmlMutex.Lock()
ClearCacheHtmlLock(w) ==
  /\ workers[w].pc = "chLock"
  /\ CanLock(htmlMutex)
  /\ htmlMutex' = [htmlMutex EXCEPT !.holder = w]
  /\ Becomes(w, [workers[w] EXCEPT !.pc = "chUnlock"])
  /\ UNCHANGED <<fixed, routeCache, htmlCache, htmlOrigin, routeMutex, settled>>

\* Router.ClearCache, the second loop, router.htmlMutex.Unlock() and the return
ClearCacheHtmlUnlock(w) ==
  /\ workers[w].pc = "chUnlock"
  /\ htmlCache' = Drop(htmlCache, Cleared(htmlCache, workers[w].arg))
  /\ htmlOrigin' = Drop(htmlOrigin, Cleared(htmlCache, workers[w].arg))
  /\ htmlMutex' = Unlocked(HtmlRLockPcs)
  /\ settled' = IF workers[w].ver = nextId /\ nextId > 3
                THEN [ver |-> nextId,
                      strs |-> (IF settled.ver = nextId THEN settled.strs ELSE {})
                                 \cup {workers[w].arg}]
                ELSE settled
  /\ Becomes(w, Idle)
  /\ UNCHANGED <<fixed, routeCache, routeMutex>>

\* Router.EmptyCache is called
EmptyCacheBegin(w) ==
  /\ workers[w].pc = "idle"
  /\ Becomes(w, [Idle EXCEPT !.pc = "eLock", !.op = "EmptyCache"])
  /\ UNCHANGED <<fixed, routeCache, htmlCache, htmlOrigin, routeMutex, htmlMutex, settled>>

\* Router.EmptyCache, router.routeMutex.Lock()
EmptyCacheLock(w) ==
  /\ workers[w].pc = "eLock"
  /\ CanLock(routeMutex)
  /\ routeMutex' = [routeMutex EXCEPT !.holder = w]
  /\ Becomes(w, [workers[w] EXCEPT !.pc = "ehLock"])
  /\ UNCHANGED <<fixed, routeCache, htmlCache, htmlOrigin, htmlMutex, settled>>

\* Router.EmptyCache, router.htmlMutex.Lock()
EmptyCacheHtmlLock(w) ==
  /\ workers[w].pc = "ehLock"
  /\ CanLock(htmlMutex)
  /\ htmlMutex' = [htmlMutex EXCEPT !.holder = w]
  /\ Becomes(w, [workers[w] EXCEPT !.pc = "ehUnlock"])
  /\ UNCHANGED <<fixed, routeCache, htmlCache, htmlOrigin, routeMutex, settled>>

\* Router.EmptyCache, the two clears and router.htmlMutex.Unlock()
EmptyCacheHtmlUnlock(w) ==
  /\ workers[w].pc = "ehUnlock"
  /\ routeCache' = EmptyMap
  /\ htmlCache' = EmptyMap
  /\ htmlOrigin' = EmptyMap
  /\ htmlMutex' = Unlocked(HtmlRLockPcs)
  /\ Becomes(w, [workers[w] EXCEPT !.pc = "eUnlock"])
  /\ UNCHANGED <<fixed, routeMutex, settled>>

\* Router.EmptyCache, router.routeMutex.Unlock() and the return
EmptyCacheUnlock(w) ==
  /\ workers[w].pc = "eUnlock"
  /\ routeMutex' = Unlocked(RouteRLockPcs)
  /\ Becomes(w, Idle)
  /\ UNCHANGED <<fixed, routeCache, htmlCache, htmlOrigin, htmlMutex, settled>>

\* NewRouter with NOHTML, DEV and NOCACHE unset
InitConc == InitHTML /\ ~noCache

\* ------------------------------------------------------------------------
\* invalidation while requests are in flight
\* ------------------------------------------------------------------------

\* the steps of a dispatch that does not serve a document
DispatchSteps(w) ==
  \/ ServeHTTPRLock(w)
  \/ ServeHTTPRUnlock(w)
  \/ ServeHTTPScan(w)
  \/ writeCacheLock(w)
  \/ writeCacheUnlock(w)
  \/ callRouteStep(w)

ClearCacheSteps(w) ==
  \/ ClearCacheLock(w)
  \/ ClearCacheUnlock(w)
  \/ ClearCacheHtmlLock(w)
  \/ ClearCacheHtmlUnlock(w)

NextRace ==
  \/ Route(GET, UsersName, Callback("write", <<"A">>))
  \/ \E w \in Workers : ServeHTTPBegin(w, GET, UsersDoug)
  \/ \E w \in Workers : DispatchSteps(w)
  \/ \E w \in Workers : ClearCacheBegin(w, UsersName)
  \/ \E w \in Workers : ClearCacheSteps(w)

\* registration, concurrent dispatches of one key and its invalidation
SpecRace == InitConc /\ [][NextRace]_vars

\* C16: a dispatch that starts after a route was registered and ClearCache
\* for its path has returned resolves to what a scan of the table gives.
C16_FreshAfterClear ==
  \A w \in Workers :
    (workers[w].op = "ServeHTTP" /\ workers[w].ver = nextId /\ workers[w].res # 0)
      => workers[w].res = ScanTable(workers[w].method, workers[w].url0).id

\* ------------------------------------------------------------------------
\* the two locks
\* ------------------------------------------------------------------------

serveHTMLSteps(w) ==
  \/ serveHTMLRLock(w)
  \/ serveHTMLRUnlock(w)
  \/ serveHTMLLock(w)
  \/ serveHTMLUnlock(w)

EmptyCacheSteps(w) ==
  \/ EmptyCacheLock(w)
  \/ EmptyCacheHtmlLock(w)
  \/ EmptyCacheHtmlUnlock(w)
  \/ EmptyCacheUnlock(w)

\* a document of the mount and a file it does not hold
LockRequestMenu == { <<GET, <<"/", "a", "/">> \o XHtml>>, <<GET, <<"/", "a", "/">> \o MTxt>> }

NextLocks ==
  \/ (routes = <<>> /\ Route(MountA[1], MountA[2], MountA[3]))
  \/ \E w \in Workers : \E q \in LockRequestMenu : ServeHTTPBegin(w, q[1], q[2])
  \/ \E w \in Workers : DispatchSteps(w)
  \/ \E w \in Workers : serveHTMLSteps(w)
  \/ \E w \in Workers : ClearCacheBegin(w, <<"/", "a", "/", "@", "@", "f">>)
  \/ \E w \in Workers : ClearCacheSteps(w)
  \/ \E w \in Workers : EmptyCacheBegin(w)
  \/ \E w \in Workers : EmptyCacheSteps(w)

\* concurrent dispatch, ClearCache and EmptyCache
SpecLocks == InitConc /\ [][NextLocks]_vars

\* the goroutine holds routeMutex, to write or to read
HoldsRoute(w) ==
  routeMutex.holder = w \/ (w \in routeMutex.readers /\ workers[w].pc \notin RouteRLockPcs)

\* the goroutine holds htmlMutex, to write or to read
HoldsHtml(w) ==
  htmlMutex.holder = w \/ (w \in htmlMutex.readers /\ workers[w].pc \notin HtmlRLockPcs)

\* C18 as stated: no goroutine holds routeMutex and htmlMutex at the same time.
C18_NeverBoth == \A w \in Workers : ~(HoldsRoute(w) /\ HoldsHtml(w))

\* C18, amended: a dispatch and ClearCache never hold routeMutex and
\* htmlMutex at the same time; EmptyCache does, between its second Lock and
\* its first Unlock, and whenever it holds htmlMutex it holds routeMutex.
C18_BothOnlyInEmptyCache ==
  \A w \in Workers :
    /\ (HoldsRoute(w) /\ HoldsHtml(w))
         => (workers[w].op = "EmptyCache" /\ workers[w].pc = "ehUnlock")
    /\ (workers[w].op = "EmptyCache" /\ HoldsHtml(w)) => HoldsRoute(w)

\* EmptyCache holds both locks while a dispatch waits to read the request cache
C18_Witness ==
  \E w \in Workers : \E v \in Workers :
    /\ workers[w].op = "EmptyCache" /\ HoldsRoute(w) /\ HoldsHtml(w)
    /\ workers[v].op = "ServeHTTP" /\ workers[v].pc = "RLock"

\* ------------------------------------------------------------------------
\* progress
\* ------------------------------------------------------------------------

\* the steps in which RLock returns
AcquireRead(w) == ServeHTTPRLock(w) \/ serveHTMLRLock(w)

\* the steps in which Lock returns
Acquire(w) ==
  \/ writeCacheLock(w)
  \/ serveHTMLLock(w)
  \/ ClearCacheLock(w)
  \/ ClearCacheHtmlLock(w)
  \/ EmptyCacheLock(w)
  \/ EmptyCacheHtmlLock(w)

\* the steps between the lock operations: they wait for nothing
Run(w) ==
  \/ ServeHTTPRUnlock(w)
  \/ ServeHTTPScan(w)
  \/ writeCacheUnlock(w)
  \/ callRouteStep(w)
  \/ serveHTMLRUnlock(w)
  \/ serveHTMLUnlock(w)
  \/ ClearCacheUnlock(w)
  \/ ClearCacheHtmlUnlock(w)
  \/ EmptyCacheHtmlUnlock(w)
  \/ EmptyCacheUnlock(w)

\* where Run(w) is enabled
RunPcs ==
  {"RUnlock", "scan", "Unlock", "callRoute", "hRUnlock", "hUnlock", "cUnlock",
   "chUnlock", "ehUnlock", "eUnlock"}

\* the scheduler runs every goroutine that can run (weak fairness of Run,
\* written with its enabling condition, and of AcquireRead), and
\* sync.RWMutex hands the lock to a writer that keeps waiting, since Lock
\* queues the writers (strong fairness of Acquire)
Fairness ==
  \A w \in Workers :
    /\ []<>(workers[w].pc \notin RunPcs) \/ []<><<Run(w)>>_vars
    /\ WF_vars(AcquireRead(w))
    /\ SF_vars(Acquire(w))

\* concurrent dispatch, ClearCache and EmptyCache under a fair scheduler
SpecLocksFair == InitConc /\ [][NextLocks]_vars /\ Fairness

\* the goroutine has called Lock or RLock and the call has not returned
Waits(w) ==
  workers[w].pc \in RouteLockPcs \cup RouteRLockPcs \cup HtmlLockPcs \cup HtmlRLockPcs

\* C20 as stated, its last clause: a goroutine that calls Lock or RLock
\* holds no lock.
C20_NoNestedLock ==
  \A w \in Workers : Waits(w) => (~HoldsRoute(w) /\ ~HoldsHtml(w))

\* C20, amended: every call into the router returns, so every Lock and
\* RLock it waits for is granted; no goroutine waits for routeMutex while
\* it holds htmlMutex; a handler is called with no lock held; the one Lock
\* called with a lock held is EmptyCache's htmlMutex.Lock() under routeMutex.
C20_LocksGranted ==
  /\ \A w \in Workers : (workers[w].pc # "idle") ~> (workers[w].pc = "idle")
  /\ [](\A w \in Workers :
          /\ workers[w].pc \in RouteLockPcs \cup RouteRLockPcs => ~HoldsHtml(w)
          /\ workers[w].pc = "callRoute" => (~HoldsRoute(w) /\ ~HoldsHtml(w))
          /\ (Waits(w) /\ (HoldsRoute(w) \/ HoldsHtml(w))) => workers[w].pc = "ehLock")

\* EmptyCache waits for htmlMutex under routeMutex while a dispatch holds
\* htmlMutex to store a document
C20_Witness ==
  \E w \in Workers : \E v \in Workers :
    /\ workers[w].pc = "ehLock" /\ HoldsRoute(w)
    /\ workers[v].pc = "hUnlock" /\ HoldsHtml(v)

====
